---- MODULE Spec2Model ----
(***************************************************************************)
(* A model of src/src/data.rs: the message data model (PHValsMap,          *)
(* Placeholder, PatternPart, MessagePattern, SingleMessage, MessageGroup,  *)
(* TextUnit), its Hash / PartialEq / Display implementations, and the      *)
(* HashMap operations its tests apply to them.                             *)
(*                                                                         *)
(* Four specifications share the module:                                   *)
(*   Spec        the variant table of a MessageGroup under insert and get  *)
(*   SpecHash    two PHValsMaps built pair by pair, compared and hashed    *)
(*   SpecRender  Display of a SingleMessage and of each of its parts       *)
(*   SpecUnit    construction of a TextUnit                                *)
(***************************************************************************)
EXTENDS Integers, Sequences, FiniteSets, TLC

VARIABLES
    messages,   \* MessageGroup.messages: the entries of HashMap<PHValsMap, SingleMessage>
    lastOp,     \* the HashMap operation applied last to `messages`, with its arguments
                \* and, for an insert, the table it was applied to
    result,     \* what that operation returned
    a,          \* PHValsMap under construction (SpecHash)
    b,          \* second PHValsMap under construction (SpecHash)
    start,      \* state of the callers' hashers before a and b were fed to them
    hasherA,    \* caller's hasher after a.hash(&mut hasher)
    hasherB,    \* caller's hasher after b.hash(&mut hasher)
    eqResult,   \* value of a == b
    msg,        \* the SingleMessage handed to Display (SpecRender)
    shown,      \* the text Display produced for it and for each of its parts
    unit        \* the TextUnit constructed (SpecUnit)

vars == <<messages, lastOp, result, a, b, start, hasherA, hasherB, eqResult,
          msg, shown, unit>>

(***************************************************************************)
(* Bounds and input universes.                                             *)
(***************************************************************************)
\* Pairs in one PHValsMap.
MaxPairs == 2
\* Variants in one MessageGroup.
MaxVariants == 2
\* Parts in one MessagePattern.
MaxParts == 2

Keys == {"COUNT", "count"}
Vals == {"ONE", "OTHER"}

\* Option<T>
None == [tag |-> "None"]
Some(x) == [tag |-> "Some", val |-> x]

(***************************************************************************)
(* HashMap<String, String>, the field PHValsMap.map.  The map is the       *)
(* sequence of its (key, value) entries in the order iteration yields      *)
(* them; keys are distinct.  The order is decided by the map's hasher      *)
(* seed and capacity, so a new key may land anywhere.                      *)
(***************************************************************************)
StrMap_new == <<>>

StrMap_find(m, k) ==
    LET hits == {i \in 1..Len(m) : m[i][1] = k}
    IN IF hits = {} THEN 0 ELSE CHOOSE i \in hits : TRUE

StrMap_get(m, k) ==
    LET i == StrMap_find(m, k)
    IN IF i = 0 THEN None ELSE Some(m[i][2])

\* insert(k, v): replaces the value of an existing key in place, otherwise
\* adds the entry at position pos of the iteration order.
StrMap_insert(m, k, v, pos) ==
    LET i == StrMap_find(m, k)
    IN IF i # 0
       THEN [m EXCEPT ![i] = <<k, v>>]
       ELSE SubSeq(m, 1, pos - 1) \o <<(<<k, v>>)>> \o SubSeq(m, pos, Len(m))

\* HashMap's PartialEq: same length, and every entry of m1 is found in m2
\* with an equal value.
StrMap_eq(m1, m2) ==
    /\ Len(m1) = Len(m2)
    /\ \A i \in 1..Len(m1) : StrMap_get(m2, m1[i][1]) = Some(m1[i][2])

\* All maps of at most MaxPairs entries over the given keys and values.
StrMaps(ks, vs) ==
    UNION {{m \in [1..n -> ks \X vs] :
               \A i, j \in 1..n : i # j => m[i][1] # m[j][1]} : n \in 0..MaxPairs}

(***************************************************************************)
(* Hasher.  A hasher state is the sequence of the items written to it, and *)
(* finish() is that sequence: a hash function without collisions.          *)
(***************************************************************************)
DefaultHasher_new == <<>>
Hasher_write(h, x) == Append(h, x)
Hasher_finish(h) == h
String_hash(s, h) == Hasher_write(h, s)

(***************************************************************************)
(* PHValsMap                                                               *)
(***************************************************************************)
PHValsMap(m) == [map |-> m]

\* The loop of PHValsMap::hash: key.hash(hasher); val.hash(hasher) for each
\* entry in iteration order.
RECURSIVE FeedEntries(_, _)
FeedEntries(m, hasher) ==
    IF m = <<>> THEN hasher
    ELSE FeedEntries(Tail(m), String_hash(Head(m)[2], String_hash(Head(m)[1], hasher)))

\* A hash that feeds the entries to the caller's hasher in iteration order.
PHValsMap_hash_intoState(self, state) == FeedEntries(self.map, state)

\* impl Hash for PHValsMap: the entries go to a local DefaultHasher whose
\* finish() value is dropped; `state`, the caller's hasher, is never written.
PHValsMap_hash(self, state) ==
    LET hasher == FeedEntries(self.map, DefaultHasher_new)
        dropped == Hasher_finish(hasher)
    IN state

\* An equality that compares the entries position by position.
PHValsMap_eq_inOrder(self, other) == self.map = other.map

\* An equality that only looks up self's entries in other.
PHValsMap_eq_subset(self, other) ==
    \A i \in 1..Len(self.map) :
        StrMap_get(other.map, self.map[i][1]) = Some(self.map[i][2])

ToLower(s) == IF s = "COUNT" THEN "count" ELSE s

\* An equality that folds the case of the keys.
PHValsMap_eq_noCase(self, other) ==
    /\ Len(self.map) = Len(other.map)
    /\ \A i \in 1..Len(self.map) :
          \E j \in 1..Len(other.map) :
             /\ ToLower(other.map[j][1]) = ToLower(self.map[i][1])
             /\ other.map[j][2] = self.map[i][2]

\* impl PartialEq for PHValsMap
PHValsMap_eq(self, other) == StrMap_eq(self.map, other.map)

\* #[derive(Clone)]: the clone iterates like the original here.
PHValsMap_clone(self) == [map |-> self.map]

AllPHVals == {PHValsMap(m) : m \in StrMaps(Keys, Vals)}
\* The probes of a lookup: one selector at most, its value one a variant may
\* carry or "FEW", which none does.
Queries ==
    {PHValsMap(StrMap_new)}
    \cup {PHValsMap(<<(<<k, v>>)>>) : k \in Keys, v \in Vals \cup {"FEW"}}

(***************************************************************************)
(* Placeholder, TextPart, PatternPart, MessagePattern, SingleMessage and   *)
(* their Display implementations.                                          *)
(***************************************************************************)
Placeholder(id, ph_type, default_text_val) ==
    [id |-> id, ph_type |-> ph_type, default_text_val |-> default_text_val]
TextPart(text) == [text |-> text]
TEXTPART(text_part) == [tag |-> "TEXTPART", val |-> text_part]
PLACEHOLDER(placeholder) == [tag |-> "PLACEHOLDER", val |-> placeholder]
MessagePattern(parts) == [parts |-> parts]
SingleMessage(id, locale, pattern, ph_vals) ==
    [id |-> id, locale |-> locale, pattern |-> pattern, ph_vals |-> ph_vals]

\* impl Display for Placeholder: the id in braces; default_text_val is not read.
Placeholder_fmt(self) == "{" \o self.id \o "}"

\* impl Display for TextPart
TextPart_fmt(self) == self.text

\* impl Display for PatternPart
PatternPart_fmt(self) ==
    IF self.tag = "TEXTPART" THEN TextPart_fmt(self.val) ELSE Placeholder_fmt(self.val)

\* [String]::join(sep)
RECURSIVE Join(_, _)
Join(strs, sep) ==
    IF Len(strs) = 0 THEN ""
    ELSE IF Len(strs) = 1 THEN strs[1]
    ELSE strs[1] \o sep \o Join(Tail(strs), sep)

\* self.parts.iter().map(|part| format!("{}", part)).collect()
PartStrs(self) == [i \in 1..Len(self.parts) |-> PatternPart_fmt(self.parts[i])]

\* A Display that joins the parts with a blank.
MessagePattern_fmt_spaced(self) == "[" \o Join(PartStrs(self), " ") \o "]"

\* impl Display for MessagePattern: the joined parts inside square brackets.
MessagePattern_fmt(self) == "[" \o Join(PartStrs(self), "") \o "]"

\* impl Display for SingleMessage
SingleMessage_fmt(self) == MessagePattern_fmt(self.pattern)

(***************************************************************************)
(* HashMap<PHValsMap, SingleMessage>, the field MessageGroup.messages.     *)
(* The table is the set of its entries, each with the hash the table       *)
(* computed for the key when it was stored.  A lookup hashes the probe     *)
(* and compares it, with PHValsMap::eq, to the stored keys of that hash.   *)
(***************************************************************************)
HashMap_new == {}

\* BuildHasher::hash_one: a fresh hasher, key.hash(&mut hasher), finish().
HashMap_hashOne(k) == Hasher_finish(PHValsMap_hash(k, DefaultHasher_new))

HashMap_find(table, k) ==
    {e \in table : e.hash = HashMap_hashOne(k) /\ PHValsMap_eq(k, e.key)}

HashMap_get(table, k) ==
    LET hits == HashMap_find(table, k)
    IN IF hits = {} THEN None ELSE Some((CHOOSE e \in hits : TRUE).value)

\* insert(k, v): an equal key already stored keeps its place and its key and
\* gets the new value; otherwise a new entry is stored.
HashMap_insert(table, k, v) ==
    LET hits == HashMap_find(table, k)
    IN IF hits = {}
       THEN table \cup {[hash |-> HashMap_hashOne(k), key |-> k, value |-> v]}
       ELSE LET e == CHOOSE x \in hits : TRUE
            IN (table \ {e}) \cup {[e EXCEPT !.value = v]}

\* The value insert returns: the value replaced, if any.
HashMap_insert_old(table, k) == HashMap_get(table, k)

(***************************************************************************)
(* Inputs of the group machine: the messages of test_construct_message,    *)
(* under every selector map of the universe.                               *)
(***************************************************************************)
MsgIds == {"msg1", "msg2"}

PatternOf(id) ==
    IF id = "msg1"
    THEN MessagePattern(<<TEXTPART(TextPart("No items selected."))>>)
    ELSE MessagePattern(<<PLACEHOLDER(Placeholder("COUNT", "PLURAL", None)),
                          TEXTPART(TextPart(" item selected."))>>)

Messages == {SingleMessage(id, "en", PatternOf(id), pv) : id \in MsgIds, pv \in AllPHVals}

(***************************************************************************)
(* MessageType, MessageGroup, TextUnit: plain struct and enum literals.    *)
(***************************************************************************)
MessageGroup(id, table) == [id |-> id, messages |-> table]
SINGLE(m) == [tag |-> "SINGLE", val |-> m]
GROUP(g) == [tag |-> "GROUP", val |-> g]

\* TextUnit { src, tgt }: the struct literal takes any two MessageTypes.
TextUnit(src, tgt) == [src |-> src, tgt |-> tgt]

(***************************************************************************)
(* Initial values of the four machines.                                    *)
(***************************************************************************)
GroupIdle ==
    /\ messages = HashMap_new
    /\ lastOp = [op |-> "new"]
    /\ result = None

HashIdle ==
    /\ a = PHValsMap(StrMap_new)
    /\ b = PHValsMap(StrMap_new)
    /\ start = DefaultHasher_new
    /\ hasherA = None
    /\ hasherB = None
    /\ eqResult = None

RenderIdle ==
    /\ msg = None
    /\ shown = None

UnitIdle == unit = None

Init == GroupIdle /\ HashIdle /\ RenderIdle /\ UnitIdle

groupVars == <<messages, lastOp, result>>
hashVars == <<a, b, start, hasherA, hasherB, eqResult>>
renderVars == <<msg, shown>>

(***************************************************************************)
(* The group machine: test_construct_message, any messages in any order.   *)
(***************************************************************************)
\* let key = m.ph_vals.clone(); messages.insert(key, m)
Insert(m) ==
    LET key == PHValsMap_clone(m.ph_vals)
    IN /\ \/ HashMap_find(messages, key) # {}
          \/ Cardinality(messages) < MaxVariants
       /\ messages' = HashMap_insert(messages, key, m)
       /\ result' = HashMap_insert_old(messages, key)
       /\ lastOp' = [op |-> "insert", msg |-> m, before |-> messages]
       /\ UNCHANGED <<hashVars, renderVars, unit>>

\* messages.get(&query).  `fallback` is whether the caller asks for the
\* catch-all policy: get has no parameter for it and MessageGroup no field.
Get(query, fallback) ==
    /\ result' = HashMap_get(messages, query)
    /\ lastOp' = [op |-> "get", query |-> query, fallback |-> fallback]
    /\ UNCHANGED <<messages, hashVars, renderVars, unit>>

Next ==
    \/ \E m \in Messages : Insert(m)
    \/ \E query \in Queries, fallback \in BOOLEAN : Get(query, fallback)

Spec == Init /\ [][Next]_vars

(***************************************************************************)
(* The hash machine: test_ph_vals_map_hasheq, any pairs in any order.      *)
(***************************************************************************)
CanInsert(m, k) == StrMap_find(m, k) # 0 \/ Len(m) < MaxPairs

\* Positions a new key may take; an existing key keeps its own.
Positions(m, k) == IF StrMap_find(m, k) # 0 THEN {1} ELSE 1..(Len(m) + 1)

ResetOutcomes ==
    /\ start' = DefaultHasher_new
    /\ hasherA' = None
    /\ hasherB' = None
    /\ eqResult' = None

InsertA(k, v) ==
    /\ CanInsert(a.map, k)
    /\ \E pos \in Positions(a.map, k) : a' = PHValsMap(StrMap_insert(a.map, k, v, pos))
    /\ ResetOutcomes
    /\ UNCHANGED <<b, groupVars, renderVars, unit>>

InsertB(k, v) ==
    /\ CanInsert(b.map, k)
    /\ \E pos \in Positions(b.map, k) : b' = PHValsMap(StrMap_insert(b.map, k, v, pos))
    /\ ResetOutcomes
    /\ UNCHANGED <<a, groupVars, renderVars, unit>>

\* Caller's hashers in some state h0, possibly having absorbed earlier input.
HasherStates == {DefaultHasher_new, Hasher_write(DefaultHasher_new, "msg_grp")}

\* a.hash(&mut h1); b.hash(&mut h2) with h1 and h2 both in state h0.
HashBoth(h0) ==
    /\ hasherA = None
    /\ start' = h0
    /\ hasherA' = Some(PHValsMap_hash(a, h0))
    /\ hasherB' = Some(PHValsMap_hash(b, h0))
    /\ UNCHANGED <<a, b, eqResult, groupVars, renderVars, unit>>

\* a == b
Compare ==
    /\ eqResult = None
    /\ eqResult' = Some(PHValsMap_eq(a, b))
    /\ UNCHANGED <<a, b, start, hasherA, hasherB, groupVars, renderVars, unit>>

NextHash ==
    \/ \E k \in Keys, v \in Vals : InsertA(k, v)
    \/ \E k \in Keys, v \in Vals : InsertB(k, v)
    \/ \E h0 \in HasherStates : HashBoth(h0)
    \/ Compare

SpecHash == Init /\ [][NextHash]_vars

(***************************************************************************)
(* The render machine: format!("{}", message) as in the println! calls of  *)
(* test_construct_message, for any pattern of at most MaxParts parts.      *)
(***************************************************************************)
Texts == {"No items selected.", " item selected.", " items selected."}
PlaceholderIds == {"COUNT", "NAME"}
DefaultTexts == {None, Some("many")}

PatternParts ==
    {TEXTPART(TextPart(t)) : t \in Texts}
    \cup {PLACEHOLDER(Placeholder(id, "PLURAL", d)) : id \in PlaceholderIds, d \in DefaultTexts}

Patterns == UNION {{MessagePattern(ps) : ps \in [1..n -> PatternParts]} : n \in 0..MaxParts}

\* The values a message carries for its placeholders (ph_vals).
RenderVals == {PHValsMap(StrMap_new), PHValsMap(<<(<<"COUNT", "1">>)>>)}

RenderMessages ==
    {SingleMessage("msg2", "en", p, pv) : p \in Patterns, pv \in RenderVals}

Display(m) ==
    /\ msg' = Some(m)
    /\ shown' = [text |-> SingleMessage_fmt(m), parts |-> PartStrs(m.pattern)]
    /\ UNCHANGED <<groupVars, hashVars, unit>>

NextRender == \E m \in RenderMessages : Display(m)

SpecRender == Init /\ [][NextRender]_vars

(***************************************************************************)
(* The unit machine: TextUnit { src, tgt } for any two MessageTypes.       *)
(***************************************************************************)
UnitMessages == {m \in Messages : Len(m.ph_vals.map) <= 1}

GroupTables ==
    {HashMap_new} \cup {HashMap_insert(HashMap_new, m.ph_vals, m) : m \in UnitMessages}

MessageTypes ==
    {SINGLE(m) : m \in UnitMessages}
    \cup {GROUP(MessageGroup("msg_grp", t)) : t \in GroupTables}

Construct(src, tgt) ==
    /\ unit' = Some(TextUnit(src, tgt))
    /\ UNCHANGED <<groupVars, hashVars, renderVars>>

NextUnit == \E src \in MessageTypes, tgt \in MessageTypes : Construct(src, tgt)

SpecUnit == Init /\ [][NextUnit]_vars

(***************************************************************************)
(* Properties.                                                             *)
(***************************************************************************)
Err(kind) == [tag |-> "Err", kind |-> kind]

\* The pair-set content of a PHValsMap.
Pairs(p) == {p.map[i] : i \in 1..Len(p.map)}

\* Two selector maps hold the same name -> value pairs.
SameContent(p, q) == Pairs(p) = Pairs(q)

\* C1: two PHValsMaps with the same pairs, in whatever order they were
\* inserted and are iterated, compare equal, and feeding them to hashers in
\* the same starting state leaves both hashers in the same state.
C1_SameContentEqualAndSameHash ==
    SameContent(a, b) =>
        /\ eqResult # None => eqResult = Some(TRUE)
        /\ hasherA # None => hasherA = hasherB

\* C1 witness: the same two pairs iterated in opposite orders, compared equal
\* and hashed alike from a hasher that had already absorbed input.
C1_Witness ==
    /\ Len(a.map) = 2
    /\ SameContent(a, b)
    /\ a.map # b.map
    /\ eqResult = Some(TRUE)
    /\ start # DefaultHasher_new
    /\ hasherA # None
    /\ hasherA = hasherB

\* C2: two PHValsMaps that differ in a key or in the value of a key, a key
\* held by one of them only and a key differing only in letter case
\* included, compare unequal.
C2_DifferentContentUnequal ==
    (~SameContent(a, b) /\ eqResult # None) => eqResult = Some(FALSE)

\* C2 witness: {COUNT: ONE} against {count: ONE, COUNT: ONE}, which differ by
\* a key that differs from a shared one only in case, compared unequal.
C2_Witness ==
    /\ Pairs(a) = {<<"COUNT", "ONE">>}
    /\ Pairs(b) = {<<"COUNT", "ONE">>, <<"count", "ONE">>}
    /\ eqResult = Some(FALSE)

\* The hash of one pair, and the order-independent combination of the
\* hashes of all pairs of a map (the set of them).
PairHash(pair) ==
    Hasher_finish(String_hash(pair[2], String_hash(pair[1], DefaultHasher_new)))
CombinedHash(p) == {PairHash(pair) : pair \in Pairs(p)}

\* C10: hashing a PHValsMap combines the hashes of its pairs with an
\* order-independent combiner and contributes the combined value to the
\* caller's hasher.
C10_CombinedHashReachesCaller ==
    (hasherA # None /\ a.map # <<>>) =>
        hasherA.val = Hasher_write(start, CombinedHash(a))

\* C3: after a message is inserted under its selector map, a lookup with any
\* selector map of the same content returns that message, and a lookup with
\* any other selector map returns what it returned before the insert (so a
\* stored variant stays resolvable through later inserts under other keys).
C3_InsertThenResolve ==
    lastOp.op = "insert" =>
        \A q \in AllPHVals :
            HashMap_get(messages, q) =
                IF SameContent(q, lastOp.msg.ph_vals)
                THEN Some(lastOp.msg)
                ELSE HashMap_get(lastOp.before, q)

\* C3 witness: a message with two selectors was just inserted beside another
\* variant, and resolves through an equal selector map that iterates in the
\* opposite order, while the other variant still resolves too.
C3_Witness ==
    /\ lastOp.op = "insert"
    /\ Len(lastOp.msg.ph_vals.map) = 2
    /\ Cardinality(messages) = 2
    /\ \E q \in AllPHVals :
          /\ q.map # lastOp.msg.ph_vals.map
          /\ SameContent(q, lastOp.msg.ph_vals)
          /\ HashMap_get(messages, q) = Some(lastOp.msg)
    /\ \E e \in messages :
          /\ ~SameContent(e.key, lastOp.msg.ph_vals)
          /\ HashMap_get(messages, e.key) = Some(e.value)

\* C4: inserting a second message under a selector map equal to one the
\* group already holds a first message under fails with DuplicateVariant and
\* leaves the group unchanged, still mapping the selector map to the first.
C4_DuplicateInsertRejected ==
    (/\ lastOp.op = "insert"
     /\ \E e \in lastOp.before : /\ SameContent(e.key, lastOp.msg.ph_vals)
                                  /\ e.value # lastOp.msg)
        => (messages = lastOp.before /\ result = Err("DuplicateVariant"))

Exact(q) == {e \in messages : SameContent(e.key, q)}
CatchAll(q) == PHValsMap([i \in 1..Len(q.map) |-> <<q.map[i][1], "OTHER">>])

\* C7: a lookup returns the variant whose key equals the query when there is
\* one; when there is none it finds nothing if no fallback is asked for, and
\* returns the OTHER variant if the fallback is asked for.
C7_ResolveWithFallback ==
    lastOp.op = "get" =>
        IF Exact(lastOp.query) # {}
        THEN \E e \in Exact(lastOp.query) : result = Some(e.value)
        ELSE IF ~lastOp.fallback
        THEN result = None
        ELSE \A e \in Exact(CatchAll(lastOp.query)) : result = Some(e.value)

\* What the placeholder stands for: the value the message carries for its
\* id, else its default text, else nothing.
Substitute(placeholder, vals) ==
    LET v == StrMap_get(vals.map, placeholder.id)
    IN IF v # None THEN v ELSE placeholder.default_text_val

\* C6: a placeholder renders as the value supplied for its id, else as its
\* default text, and with neither the whole render fails with MissingValue.
C6_PlaceholderSubstitution ==
    shown # None =>
        \A i \in 1..Len(msg.val.pattern.parts) :
            LET part == msg.val.pattern.parts[i]
            IN part.tag = "PLACEHOLDER" =>
                   LET v == Substitute(part.val, msg.val.ph_vals)
                   IN IF v = None
                      THEN shown = Err(<<"MissingValue", part.val.id>>)
                      ELSE shown.parts[i] = v.val

RECURSIVE Concat(_)
Concat(strs) == IF strs = <<>> THEN "" ELSE Head(strs) \o Concat(Tail(strs))

ExamplePattern ==
    MessagePattern(<<PLACEHOLDER(Placeholder("COUNT", "PLURAL", None)),
                     TEXTPART(TextPart(" item selected."))>>)

C8_SameShapeOrMismatch ==
    unit # None =>
        IF unit.tag = "Some"
        THEN unit.val.src.tag = unit.val.tgt.tag
        ELSE unit = Err("ShapeMismatch")

====
